---- MODULE Spec2Model ----
(***************************************************************************)
(* Model of Security/C/Debugger.c: disable_gdb (ptrace PT_DENY_ATTACH via  *)
(* a raw supervisor call) and isBeingDebugged_sysctl (sysctl kern.proc.pid *)
(* query of the own process, test of P_TRACED), called from several        *)
(* threads of one process, next to a debugger that attaches and detaches.  *)
(* The kernel side of the two system calls follows ptrace(2) and sysctl(3).*)
(***************************************************************************)
EXTENDS Integers, Sequences, FiniteSets

\* ---------------------------------------------------------------- bounds
NumThreads == 2
MaxDgCalls == 2

Threads == 1..NumThreads

\* ------------------------------------------------------ program constants
\* <sys/proc.h>, <sys/sysctl.h>, <sys/ptrace.h>, <sys/syscall.h>, <sys/errno.h>
P_TRACED        == 2048
CTL_KERN        == 1
KERN_PROC       == 14
KERN_PROC_PID   == 1
PT_DENY_ATTACH  == 31
SYS_ptrace      == 26
KinfoSize       == 648
NameLen         == 4

\* p_flag bits other than P_TRACED that the process may carry from its start
\* (none, or the two bits next to P_TRACED with a low bit and bit 30)
OtherFlagSet == {0, 1073746946}
\* what an uninitialised or partially written p_flag may hold
GarbageFlags == {0, P_TRACED}
\* the pid the process may have been given
PidSet == {501}

VARIABLES
    debugBuild,  \* value of the DEBUG preprocessor switch of this build
    proc,        \* the kernel's entry of the process
    lastEvent,   \* the last thing a debugger did to the process
    pc,          \* per thread: position in the code
    name,        \* per thread: int name[4]
    info,        \* per result buffer: info.kp_proc.p_flag
    size,        \* per thread: size_t size
    ret,         \* per thread: int ret
    result,      \* per thread: what the last call returned to its caller
    obs,         \* per thread: the query of the current or last call, as the kernel saw it
    qlog,        \* per thread: the sysctl queries of the current or last call
    reqs,        \* per thread: the supervisor calls of the current or last call
    dgCount,     \* number of disable_gdb invocations so far
    denied       \* disable_gdb issued its request on a non-traced process

vars == <<debugBuild, proc, lastEvent, pc, name, info, size, ret, result,
          obs, qlog, reqs, dgCount, denied>>

\* ------------------------------------------------------------ pure helpers
RECURSIVE BitAnd(_, _)
BitAnd(a, b) ==
    IF a = 0 \/ b = 0 THEN 0
    ELSE (a % 2) * (b % 2) + 2 * BitAnd(a \div 2, b \div 2)

ToRet(b) == IF b THEN "true" ELSE "false"

\* no query made yet in the current call
NoObs == [ret |-> 0, traced |-> FALSE, flags |-> 0, event |-> "none", wrote |-> 0]

\* ------------------------------------------------------------- the kernel
\* p_flag as exported in struct kinfo_proc: the trace state shows as P_TRACED
ExportedFlags(p) == p.oflags + (IF p.traced THEN P_TRACED ELSE 0)

PtraceDenyAttachToggle(p) ==
    IF p.traced
    THEN [p EXCEPT !.alive = FALSE]
    ELSE [p EXCEPT !.noattach = ~p.noattach]

\* ptrace(PT_DENY_ATTACH, 0, 0, 0): a traced caller is made to exit,
\* otherwise the caller is marked so that later attaches are refused
PtraceDenyAttach(p) ==
    IF p.traced
    THEN [p EXCEPT !.alive = FALSE]
    ELSE [p EXCEPT !.noattach = TRUE]

\* svc #0x80: x16 selects the system call, x0..x3 carry its arguments;
\* any request other than ptrace(PT_DENY_ATTACH) returns an error here
Syscall(p, regs) ==
    IF regs.x16 = SYS_ptrace /\ regs.x0 = PT_DENY_ATTACH
    THEN PtraceDenyAttach(p)
    ELSE p

\* sysctl(name, namelen, oldp, oldlenp, newp, newlen): the outcomes the
\* kernel can produce.  It can fail for any reason (ret -1), leaving the old
\* buffer as it was or partially written.  kern.proc.pid is read-only and
\* succeeds (ret 0) for a well-formed query: the entry of the named process
\* is copied out, and nothing is copied for a pid that names no process.
SysctlOutcomes(p, nm, q, oldval, oldlen) ==
    LET failures == {[ret |-> -1, info |-> g, size |-> oldlen] :
                        g \in GarbageFlags \cup {oldval}}
        wellFormed == /\ q.namelen = NameLen
                      /\ Len(nm) = NameLen
                      /\ nm[1] = CTL_KERN /\ nm[2] = KERN_PROC
                      /\ nm[3] = KERN_PROC_PID
                      /\ q.newp = "NULL"
                      /\ oldlen >= KinfoSize
    IN  failures \cup
        (IF ~wellFormed THEN {}
         ELSE IF nm[4] = p.pid
              THEN {[ret |-> 0, info |-> ExportedFlags(p), size |-> KinfoSize]}
              ELSE {[ret |-> 0, info |-> oldval, size |-> 0]})

\* --------------------------------------------------------------- the code
SkipInDebugInverted(d) == d = 0

\* #if DEBUG ... return; #endif
SkipInDebug(d) == d # 0

DenyRegsTraceMe ==
    [x0 |-> 0, x1 |-> 0, x2 |-> 0, x3 |-> 0, x16 |-> SYS_ptrace]

DenyRegsWrongCall ==
    [x0 |-> PT_DENY_ATTACH, x1 |-> 0, x2 |-> 0, x3 |-> 0, x16 |-> PT_DENY_ATTACH]

\* the registers the inline assembly loads before svc #0x80
DenyRegs ==
    [x0 |-> PT_DENY_ATTACH, x1 |-> 0, x2 |-> 0, x3 |-> 0, x16 |-> SYS_ptrace]

BufOfShared(t) == 1

\* struct kinfo_proc info: an automatic variable, one per call
BufOf(t) == t

InitialPFlagKept(old) == old

\* info.kp_proc.p_flag = 0
InitialPFlag(old) == 0

BuildNameParent(pid) == <<CTL_KERN, KERN_PROC, KERN_PROC_PID, pid - 1>>

\* name[0..3] = CTL_KERN, KERN_PROC, KERN_PROC_PID, getpid()
BuildName(pid) == <<CTL_KERN, KERN_PROC, KERN_PROC_PID, pid>>

QueryArgsWriting == [namelen |-> NameLen, newp |-> "set", newlen |-> 4]

\* sysctl(name, 4, &info, &size, NULL, 0)
QueryArgs == [namelen |-> NameLen, newp |-> "NULL", newlen |-> 0]

QueryFailedPositive(r) == r > 0

\* if ((ret = sysctl(...)))
QueryFailed(r) == r # 0

IsTracedEqual(flag) == flag = P_TRACED

\* (info.kp_proc.p_flag & P_TRACED) != 0
IsTraced(flag) == BitAnd(flag, P_TRACED) # 0

\* ------------------------------------------------------------------ state
Init ==
    /\ debugBuild \in {0, 1}
    /\ proc \in [pid : PidSet, traced : {FALSE}, noattach : {FALSE},
                 oflags : OtherFlagSet, alive : {TRUE}]
    /\ lastEvent = "none"
    /\ pc = [t \in Threads |-> "idle"]
    /\ name = [t \in Threads |-> <<>>]
    /\ info = [t \in Threads |-> 0]
    /\ size = [t \in Threads |-> 0]
    /\ ret = [t \in Threads |-> 0]
    /\ result = [t \in Threads |-> "none"]
    /\ obs = [t \in Threads |-> NoObs]
    /\ qlog = [t \in Threads |-> <<>>]
    /\ reqs = [t \in Threads |-> <<>>]
    /\ dgCount = 0
    /\ denied = FALSE

\* ------------------------------------------------------------ disable_gdb
CallDisableGdb(t) ==
    /\ proc.alive /\ pc[t] = "idle"
    /\ dgCount < MaxDgCalls
    /\ dgCount' = dgCount + 1
    /\ pc' = [pc EXCEPT ![t] = "dg_if"]
    /\ result' = [result EXCEPT ![t] = "none"]
    /\ obs' = [obs EXCEPT ![t] = NoObs]
    /\ qlog' = [qlog EXCEPT ![t] = <<>>]
    /\ reqs' = [reqs EXCEPT ![t] = <<>>]
    /\ UNCHANGED <<debugBuild, proc, lastEvent, name, info, size, ret, denied>>

DgIf(t) ==
    /\ proc.alive /\ pc[t] = "dg_if"
    /\ pc' = [pc EXCEPT ![t] = IF SkipInDebug(debugBuild) THEN "dg_ret"
                                                          ELSE "dg_svc"]
    /\ UNCHANGED <<debugBuild, proc, lastEvent, name, info, size, ret, result,
                   obs, qlog, reqs, dgCount, denied>>

DgSvc(t) ==
    /\ proc.alive /\ pc[t] = "dg_svc"
    /\ proc' = Syscall(proc, DenyRegs)
    /\ reqs' = [reqs EXCEPT ![t] = Append(@, DenyRegs)]
    /\ denied' = (denied \/ ~proc.traced)
    /\ pc' = [pc EXCEPT ![t] = IF proc'.alive THEN "dg_ret" ELSE "exited"]
    /\ UNCHANGED <<debugBuild, lastEvent, name, info, size, ret, result, obs,
                   qlog, dgCount>>

DgRet(t) ==
    /\ proc.alive /\ pc[t] = "dg_ret"
    /\ pc' = [pc EXCEPT ![t] = "idle"]
    /\ result' = [result EXCEPT ![t] = "void"]
    /\ UNCHANGED <<debugBuild, proc, lastEvent, name, info, size, ret, obs,
                   qlog, reqs, dgCount, denied>>

\* ------------------------------------------------- isBeingDebugged_sysctl
CallIsBeingDebugged(t) ==
    /\ proc.alive /\ pc[t] = "idle"
    /\ pc' = [pc EXCEPT ![t] = "ib_init"]
    /\ result' = [result EXCEPT ![t] = "none"]
    /\ \E g \in GarbageFlags : info' = [info EXCEPT ![BufOf(t)] = g]
    /\ obs' = [obs EXCEPT ![t] = NoObs]
    /\ qlog' = [qlog EXCEPT ![t] = <<>>]
    /\ reqs' = [reqs EXCEPT ![t] = <<>>]
    /\ UNCHANGED <<debugBuild, proc, lastEvent, name, size, ret, dgCount,
                   denied>>

IbInit(t) ==
    /\ proc.alive /\ pc[t] = "ib_init"
    /\ size' = [size EXCEPT ![t] = KinfoSize]
    /\ info' = [info EXCEPT ![BufOf(t)] = InitialPFlag(@)]
    /\ pc' = [pc EXCEPT ![t] = "ib_name"]
    /\ UNCHANGED <<debugBuild, proc, lastEvent, name, ret, result, obs, qlog,
                   reqs, dgCount, denied>>

IbName(t) ==
    /\ proc.alive /\ pc[t] = "ib_name"
    /\ name' = [name EXCEPT ![t] = BuildName(proc.pid)]
    /\ pc' = [pc EXCEPT ![t] = "ib_sysctl"]
    /\ UNCHANGED <<debugBuild, proc, lastEvent, info, size, ret, result, obs,
                   qlog, reqs, dgCount, denied>>

IbSysctl(t) ==
    /\ proc.alive /\ pc[t] = "ib_sysctl"
    /\ \E out \in SysctlOutcomes(proc, name[t], QueryArgs, info[BufOf(t)], size[t]) :
          /\ ret' = [ret EXCEPT ![t] = out.ret]
          /\ info' = [info EXCEPT ![BufOf(t)] = out.info]
          /\ size' = [size EXCEPT ![t] = out.size]
          /\ pc' = [pc EXCEPT ![t] = IF QueryFailed(out.ret) THEN "ib_fail"
                                                            ELSE "ib_test"]
          /\ obs' = [obs EXCEPT ![t] = [ret |-> out.ret,
                                        traced |-> proc.traced,
                                        flags |-> ExportedFlags(proc),
                                        event |-> lastEvent,
                                        wrote |-> out.info]]
    /\ qlog' = [qlog EXCEPT ![t] =
                   Append(@, [name |-> name[t], args |-> QueryArgs,
                              pflag |-> info[BufOf(t)]])]
    /\ UNCHANGED <<debugBuild, proc, lastEvent, name, result, reqs, dgCount,
                   denied>>

\* the frame of the call is gone once it returns
IbLeave(t, value) ==
    /\ pc' = [pc EXCEPT ![t] = "idle"]
    /\ result' = [result EXCEPT ![t] = value]
    /\ name' = [name EXCEPT ![t] = <<>>]
    /\ info' = [info EXCEPT ![BufOf(t)] = 0]
    /\ size' = [size EXCEPT ![t] = 0]
    /\ ret' = [ret EXCEPT ![t] = 0]
    /\ UNCHANGED <<debugBuild, proc, lastEvent, obs, qlog, reqs, dgCount,
                   denied>>

IbFail(t) ==
    /\ proc.alive /\ pc[t] = "ib_fail"
    /\ IbLeave(t, ToRet(FALSE))

IbTest(t) ==
    /\ proc.alive /\ pc[t] = "ib_test"
    /\ IbLeave(t, ToRet(IsTraced(info[BufOf(t)])))

\* ------------------------------------------------------------ environment
DebuggerAttach ==
    /\ proc.alive /\ ~proc.traced /\ ~proc.noattach
    /\ proc' = [proc EXCEPT !.traced = TRUE]
    /\ lastEvent' = "attach"
    /\ UNCHANGED <<debugBuild, pc, name, info, size, ret, result, obs, qlog,
                   reqs, dgCount, denied>>

DebuggerRefused ==
    /\ proc.alive /\ ~proc.traced /\ proc.noattach
    /\ lastEvent # "refused"
    /\ lastEvent' = "refused"
    /\ UNCHANGED <<debugBuild, proc, pc, name, info, size, ret, result, obs,
                   qlog, reqs, dgCount, denied>>

DebuggerDetach ==
    /\ proc.alive /\ proc.traced
    /\ proc' = [proc EXCEPT !.traced = FALSE]
    /\ lastEvent' = "detach"
    /\ UNCHANGED <<debugBuild, pc, name, info, size, ret, result, obs, qlog,
                   reqs, dgCount, denied>>

Next ==
    \/ \E t \in Threads : CallDisableGdb(t)
    \/ \E t \in Threads : DgIf(t)
    \/ \E t \in Threads : DgSvc(t)
    \/ \E t \in Threads : DgRet(t)
    \/ \E t \in Threads : CallIsBeingDebugged(t)
    \/ \E t \in Threads : IbInit(t)
    \/ \E t \in Threads : IbName(t)
    \/ \E t \in Threads : IbSysctl(t)
    \/ \E t \in Threads : IbFail(t)
    \/ \E t \in Threads : IbTest(t)
    \/ DebuggerAttach
    \/ DebuggerRefused
    \/ DebuggerDetach

Spec == Init /\ [][Next]_vars

TypeOK ==
    /\ debugBuild \in {0, 1}
    /\ pc \in [Threads -> {"idle", "dg_if", "dg_svc", "dg_ret", "exited",
                           "ib_init", "ib_name", "ib_sysctl", "ib_fail", "ib_test"}]
    /\ result \in [Threads -> {"none", "void", "true", "false"}]
    /\ dgCount \in 0..MaxDgCalls

\* ----------------------------------------------------------------- claims
IbPcs == {"ib_init", "ib_name", "ib_sysctl", "ib_fail", "ib_test"}
DgPcs == {"dg_if", "dg_svc", "dg_ret"}

\* thread t has returned from isBeingDebugged_sysctl with a value
Returned(t) == pc[t] = "idle" /\ result[t] \in {"true", "false"}

\* C1: when the query succeeded, the call returns true exactly when the
\* P_TRACED bit is set in the p_flag the kernel returned, whatever the other
\* bits are: true for a traced process, false for a non-traced one.
C1_SuccessReturnsTracedBit ==
    \A t \in Threads :
        (Returned(t) /\ obs[t].ret = 0) =>
            /\ (result[t] = "true") <=> ((obs[t].flags \div P_TRACED) % 2 = 1)
            /\ obs[t].traced => result[t] = "true"
            /\ ~obs[t].traced => result[t] = "false"

C1_Witness ==
    /\ proc.oflags # 0
    /\ Returned(1) /\ obs[1].ret = 0 /\ result[1] = "true"
    /\ Returned(2) /\ obs[2].ret = 0 /\ result[2] = "false"

\* C2: when the query failed, the call returns false, whatever the trace
\* state of the process and whatever the kernel left in the result buffer.
C2_FailureReturnsFalse ==
    \A t \in Threads :
        (pc[t] = "idle" /\ obs[t].ret # 0) => result[t] = "false"

C2_Witness ==
    \E t \in Threads :
        /\ Returned(t) /\ obs[t].ret # 0
        /\ obs[t].traced /\ obs[t].wrote = P_TRACED

\* C3: in a release build, once disable_gdb has issued its request on a
\* non-traced process, the process carries the deny-attach mark and is never
\* traced in any later state.
C3_DeniedNeverTraced ==
    denied => (proc.noattach /\ ~proc.traced)

C3_Witness ==
    /\ debugBuild = 0 /\ denied /\ lastEvent = "refused"
    /\ \E t \in Threads : Returned(t) /\ obs[t].event = "refused"

\* C4: in a debug build every step of disable_gdb leaves the kernel's entry
\* of the process unchanged and issues no request; in a release build the
\* #if falls through to the supervisor call, which issues exactly the
\* ptrace(PT_DENY_ATTACH, 0, 0, 0) request.
C4_DebugNoOpReleaseIssues ==
    [][\A t \in Threads :
          (pc[t] \in DgPcs /\ pc'[t] # pc[t]) =>
              IF debugBuild # 0
              THEN /\ proc' = proc
                   /\ reqs'[t] = <<>>
                   /\ pc[t] # "dg_svc"
              ELSE /\ pc[t] = "dg_if" => pc'[t] = "dg_svc"
                   /\ pc[t] = "dg_svc" =>
                        reqs'[t] = <<[x0 |-> 31, x1 |-> 0, x2 |-> 0, x3 |-> 0,
                                      x16 |-> 26]>>
                   /\ pc[t] = "dg_ret" => Len(reqs[t]) = 1]_vars

C4_Witness ==
    /\ debugBuild # 0 /\ dgCount >= 1
    /\ \E t \in Threads : pc[t] = "idle" /\ result[t] = "void"
    /\ lastEvent = "attach" /\ proc.traced

\* C5: a successful call returns the trace state at the time of its query:
\* false before any attach, true after an attach, false after the detach.
C5_FollowsAttachDetach ==
    \A t \in Threads :
        (Returned(t) /\ obs[t].ret = 0) =>
            result[t] = (IF obs[t].event = "attach" THEN "true" ELSE "false")

C5_Witness ==
    /\ Returned(1) /\ obs[1].ret = 0 /\ obs[1].event = "attach"
    /\ Returned(2) /\ obs[2].ret = 0 /\ obs[2].event = "detach"
    /\ result[1] = "true" /\ result[2] = "false"

\* C6: no step of isBeingDebugged_sysctl, from its call to its return,
\* changes the kernel's entry of the process or anything else outside the
\* call, and the query passes no new value (newp NULL, newlen 0).
C6_NoSideEffects ==
    [][\A t \in Threads :
          ((pc[t] \in IbPcs \/ pc'[t] \in IbPcs) /\ pc'[t] # pc[t]) =>
              /\ proc' = proc
              /\ lastEvent' = lastEvent
              /\ denied' = denied
              /\ dgCount' = dgCount
              /\ debugBuild' = debugBuild
              /\ \A u \in Threads \ {t} : reqs'[u] = reqs[u] /\ result'[u] = result[u]
              /\ pc[t] = "ib_sysctl" =>
                    /\ qlog'[t][Len(qlog'[t])].args.newp = "NULL"
                    /\ qlog'[t][Len(qlog'[t])].args.newlen = 0]_vars

C6_Witness ==
    /\ proc.noattach
    /\ Returned(1) /\ obs[1].ret = 0
    /\ Returned(2) /\ obs[2].ret # 0

\* C7: under every interleaving, the buffer a call tests holds what the
\* kernel wrote for that very call, its descriptor names the own process,
\* and its result is the one of the query it made itself.
C7_ConcurrentCallsIsolated ==
    \A t \in Threads :
        /\ pc[t] = "ib_test" => info[t] = obs[t].wrote
        /\ pc[t] = "ib_sysctl" => (name[t][NameLen] = proc.pid /\ info[t] = 0)
        /\ Returned(t) =>
              result[t] = ToRet(obs[t].ret = 0 /\ obs[t].traced)

C7_Witness ==
    /\ pc[1] = "ib_test" /\ pc[2] = "ib_test"
    /\ obs[1].traced /\ ~obs[2].traced

\* C8 as stated: every disable_gdb call returns to its caller; none ends
\* with the process terminated.
C8_AlwaysReturns ==
    proc.alive /\ \A t \in Threads : pc[t] # "exited"

\* C8 amended: the request returns and the call returns normally, with no
\* value, whenever the process is not traced at the time of the request;
\* when it is traced, the kernel ends the process and the call never returns.
C8_ReturnsUnlessTraced ==
    [][\A t \in Threads :
          /\ (pc[t] = "dg_svc" /\ pc'[t] # pc[t]) =>
                IF proc.traced
                THEN pc'[t] = "exited" /\ ~proc'.alive
                ELSE pc'[t] = "dg_ret" /\ proc'.alive
          /\ (pc[t] = "dg_ret" /\ pc'[t] # pc[t]) =>
                pc'[t] = "idle" /\ result'[t] = "void" /\ proc' = proc]_vars

C8_Witness ==
    /\ debugBuild = 0 /\ dgCount >= 2 /\ proc.alive
    /\ \E t \in Threads : pc[t] = "idle" /\ result[t] = "void" /\ reqs[t] # <<>>

C10_ExactlyOneQuery ==
    \A t \in Threads :
        /\ pc[t] \in {"ib_init", "ib_name", "ib_sysctl"} => qlog[t] = <<>>
        /\ (pc[t] \in {"ib_fail", "ib_test"} \/ Returned(t)) =>
              /\ Len(qlog[t]) = 1
              /\ qlog[t][1].name = <<1, 14, 1, proc.pid>>
              /\ qlog[t][1].args.namelen = 4
              /\ qlog[t][1].pflag = 0

C10_Witness ==
    \E t \in Threads :
        /\ Returned(t) /\ obs[t].ret # 0 /\ Len(qlog[t]) = 1
        /\ proc.traced
====
